---- MODULE Spec2Model ----
(***************************************************************************)
(* The POS terminal of shop-billing: the React component POS with its      *)
(* cart, its sale metadata, its receipt state and the requests it has in   *)
(* flight against the backend (GET /products, GET /products/{id},          *)
(* POST /checkout).  Every event handler and every continuation of an      *)
(* awaited request is one action.  Money is in integer cents.              *)
(***************************************************************************)
EXTENDS Integers, Sequences, FiniteSets, TLC

VARIABLES
    products,        \* useState<Product[]>: the catalog as last fetched
    cart,            \* useState<CartItem[]>
    customerName,    \* useState<string>
    paymentMethod,   \* useState<string>
    barcodeInput,    \* useState<string>
    showReceipt,     \* useState<boolean>
    currentInvoice,  \* useState<Invoice | null>
    checkouts,       \* POST /checkout requests awaiting their response, oldest first
    lookups,         \* GET /products/{identifier} requests awaiting their response
    loads,           \* number of GET /products requests awaiting their response
    backend,         \* the catalog the backend holds
    alertShown,      \* the text window.alert showed in the last handler run
    lastOp,          \* the handler (or continuation) that ran last, with its inputs
    adds,            \* per product: length of the current run of addToCart calls
    noAddSinceSale,  \* a checkout was confirmed and addToCart has not been called since
    totals,          \* calculateTotals() of the last render
    log,             \* counts: processCheckout runs on a non-empty cart, responses
                     \* processed, rejections among them
    steps            \* number of handler runs so far

vars == <<products, cart, customerName, paymentMethod, barcodeInput, showReceipt,
          currentInvoice, checkouts, lookups, loads, backend, alertShown, lastOp,
          adds, noAddSinceSale, totals, log, steps>>

-----------------------------------------------------------------------------
(* Bounds *)

\* Handler runs explored in one behaviour.
MaxSteps == 6

-----------------------------------------------------------------------------
(* Values *)

ProductIds == {1, 2, 3}

\* Two states of the backend catalog: product 1 is renamed and repriced in the second.
CatalogA ==
    << [id |-> 1, name |-> "Widget", price |-> 1000],
       [id |-> 2, name |-> "Gadget", price |-> 500],
       [id |-> 3, name |-> "Gizmo", price |-> 250] >>

CatalogB ==
    << [id |-> 1, name |-> "Widget XL", price |-> 1200],
       [id |-> 2, name |-> "Gadget", price |-> 500],
       [id |-> 3, name |-> "Gizmo", price |-> 250] >>

Catalogs == {CatalogA, CatalogB}

CustomerNames == {"Walk-in Customer", "Alice"}

PaymentMethods == {"cash", "card"}

BarcodeInputs == {"", "1", "UNKNOWN"}

Deltas == {-2, -1, 1, 2}

Invoices == {"INV-1", "INV-2"}

null == "null"

Undefined == "undefined"

NoAlert == "no alert"

\* What a failed request throws into the catch block: an AxiosError (status 0
\* when no response arrived, and then no response body), another Error, or a
\* thrown value that is no Error.
AxiosErrors(statuses) ==
    [kind : {"axios"}, status : {0}, detail : {Undefined},
     message : {"", "Network Error"}]
    \cup
    [kind : {"axios"}, status : statuses,
     detail : {Undefined, "", "Insufficient stock for Widget"},
     message : {"", "Request failed"}]

PlainErrors ==
    [kind : {"error"}, status : {0}, detail : {Undefined}, message : {"", "boom"}]

OtherThrown ==
    {[kind |-> "other", status |-> 0, detail |-> Undefined, message |-> Undefined]}

CheckoutErrors == AxiosErrors({400}) \cup PlainErrors \cup OtherThrown

LookupErrors == AxiosErrors({404, 500}) \cup PlainErrors \cup OtherThrown

NoError == [kind |-> "none", status |-> 0, detail |-> Undefined, message |-> Undefined]

\* What axios hands to the continuation of a request: a 2xx response resolves
\* the promise, anything else is thrown.
Resolved(data) == [status |-> 200, data |-> data, error |-> NoError]

Thrown(error) == [status |-> error.status, data |-> null, error |-> error]

CheckoutResponses ==
    {Resolved(invoice) : invoice \in Invoices} \cup {Thrown(e) : e \in CheckoutErrors}

NoResponse == [status |-> 0, data |-> null, error |-> NoError]

NoRequest == [cart |-> << >>, customer_name |-> "", payment_method |-> ""]

\* A handler run: its name, its inputs (the response and the request it answers,
\* for a continuation) and the cart it found.
Op(op, pid, change, response, request) ==
    [op |-> op, pid |-> pid, change |-> change, response |-> response,
     request |-> request, cart |-> cart]

-----------------------------------------------------------------------------
(* Cart updaters: the functions handed to setCart *)

HasItem(prevCart, productId) ==
    \E i \in DOMAIN prevCart : prevCart[i].product_id = productId

\* Array.prototype.find: the first matching item.
FindItem(prevCart, productId) ==
    prevCart[CHOOSE i \in DOMAIN prevCart :
                /\ prevCart[i].product_id = productId
                /\ \A j \in 1..(i - 1) : prevCart[j].product_id # productId]

FilterOut(prevCart, productId) ==
    SelectSeq(prevCart, LAMBDA item : item.product_id # productId)

\* addToCart without the merge: every call appends a line.
addToCartAppends(prevCart, product) ==
    Append(prevCart,
           [product_id |-> product.id, name |-> product.name,
            price |-> product.price, quantity |-> 1])

\* addToCart that leaves the quantity of an existing line as it is.
addToCartKeepsQuantity(prevCart, product) ==
    IF HasItem(prevCart, product.id)
    THEN prevCart
    ELSE Append(prevCart,
                [product_id |-> product.id, name |-> product.name,
                 price |-> product.price, quantity |-> 1])

\* addToCart that refreshes the name and the price of an existing line from the
\* product it is given.
addToCartRefreshesLine(prevCart, product) ==
    IF HasItem(prevCart, product.id)
    THEN [i \in DOMAIN prevCart |->
            IF prevCart[i].product_id = product.id
            THEN [prevCart[i] EXCEPT !.quantity = @ + 1, !.name = product.name,
                                     !.price = product.price]
            ELSE prevCart[i]]
    ELSE Append(prevCart,
                [product_id |-> product.id, name |-> product.name,
                 price |-> product.price, quantity |-> 1])

addToCartUpdater(prevCart, product) ==
    IF HasItem(prevCart, product.id)
    THEN [i \in DOMAIN prevCart |->
            IF prevCart[i].product_id = product.id
            THEN [prevCart[i] EXCEPT !.quantity = @ + 1]
            ELSE prevCart[i]]
    ELSE Append(prevCart,
                [product_id |-> product.id, name |-> product.name,
                 price |-> product.price, quantity |-> 1])

\* updateQuantity removing the line only below zero (newQuantity < 0).
updateQuantityKeepsZero(prevCart, productId, change) ==
    IF ~HasItem(prevCart, productId)
    THEN prevCart
    ELSE LET newQuantity == FindItem(prevCart, productId).quantity + change
         IN  IF newQuantity < 0
             THEN FilterOut(prevCart, productId)
             ELSE [i \in DOMAIN prevCart |->
                     IF prevCart[i].product_id = productId
                     THEN [prevCart[i] EXCEPT !.quantity = newQuantity]
                     ELSE prevCart[i]]

\* updateQuantity clamping the quantity at 1 instead of removing the line.
updateQuantityClamps(prevCart, productId, change) ==
    IF ~HasItem(prevCart, productId)
    THEN prevCart
    ELSE LET newQuantity == FindItem(prevCart, productId).quantity + change
         IN  [i \in DOMAIN prevCart |->
                 IF prevCart[i].product_id = productId
                 THEN [prevCart[i] EXCEPT !.quantity =
                          IF newQuantity <= 0 THEN 1 ELSE newQuantity]
                 ELSE prevCart[i]]

updateQuantityUpdater(prevCart, productId, change) ==
    IF ~HasItem(prevCart, productId)
    THEN prevCart
    ELSE LET newQuantity == FindItem(prevCart, productId).quantity + change
         IN  IF newQuantity <= 0
             THEN FilterOut(prevCart, productId)
             ELSE [i \in DOMAIN prevCart |->
                     IF prevCart[i].product_id = productId
                     THEN [prevCart[i] EXCEPT !.quantity = newQuantity]
                     ELSE prevCart[i]]

\* removeFromCart that drops the last line when the id has no line.
removeFromCartDropsLast(prevCart, productId) ==
    IF HasItem(prevCart, productId)
    THEN FilterOut(prevCart, productId)
    ELSE SubSeq(prevCart, 1, Len(prevCart) - 1)

\* removeFromCart that fills the slot of the removed line with the last line.
removeFromCartSwaps(prevCart, productId) ==
    IF ~HasItem(prevCart, productId)
    THEN prevCart
    ELSE LET k == CHOOSE i \in DOMAIN prevCart : prevCart[i].product_id = productId
         IN  [i \in 1..(Len(prevCart) - 1) |->
                IF i = k THEN prevCart[Len(prevCart)] ELSE prevCart[i]]

removeFromCartUpdater(prevCart, productId) ==
    FilterOut(prevCart, productId)

-----------------------------------------------------------------------------
(* Totals Calculator *)

\* taxRate = 0.08, as a percentage. Amounts are in cents; every catalog price is
\* a multiple of 25 cents, so the tax of any cart is a whole number of cents.
TaxRatePercent == 8

\* cart.reduce((sum, item) => sum + item.price * item.quantity, 0)
RECURSIVE SumLines(_)
SumLines(c) ==
    IF Len(c) = 0 THEN 0
    ELSE SumLines(SubSeq(c, 1, Len(c) - 1)) + c[Len(c)].price * c[Len(c)].quantity

\* calculateTotals summing the prices of the lines without their quantities.
calculateTotalsIgnoresQuantity(c) ==
    LET subtotal == SumLines([i \in DOMAIN c |-> [c[i] EXCEPT !.quantity = 1]])
        tax == (subtotal * TaxRatePercent) \div 100
    IN  [subtotal |-> subtotal, tax |-> tax, total |-> subtotal + tax]

calculateTotals(c) ==
    LET subtotal == SumLines(c)
        tax == (subtotal * TaxRatePercent) \div 100
    IN  [subtotal |-> subtotal, tax |-> tax, total |-> subtotal + tax]

-----------------------------------------------------------------------------
(* Initial state: the component has mounted and its effect has called      *)
(* loadProducts.                                                           *)

Init ==
    /\ products = << >>
    /\ cart = << >>
    /\ customerName = "Walk-in Customer"
    /\ paymentMethod = "cash"
    /\ barcodeInput = ""
    /\ showReceipt = FALSE
    /\ currentInvoice = null
    /\ checkouts = << >>
    /\ lookups = << >>
    /\ loads = 1
    /\ backend = CatalogA
    /\ alertShown = NoAlert
    /\ lastOp = [op |-> "mount", pid |-> 0, change |-> 0, response |-> NoResponse,
                 request |-> NoRequest, cart |-> << >>]
    /\ adds = [p \in ProductIds |-> 0]
    /\ noAddSinceSale = FALSE
    /\ totals = calculateTotals(cart)
    /\ log = [attempts |-> 0, settled |-> 0, rejected |-> 0]
    /\ steps = 0

Step == steps < MaxSteps /\ steps' = steps + 1

\* A render that kept the totals of the previous render while the number of lines
\* stayed the same.
RenderKeepsTotals ==
    totals' = IF Len(cart') = Len(cart) THEN totals ELSE calculateTotals(cart')

\* The render that follows a handler: const totals = calculateTotals().
Render == totals' = calculateTotals(cart')

-----------------------------------------------------------------------------
(* Cart Store *)

\* The run of addToCart(p) calls: starts when p has no line, ends with any other
\* operation on p.
AddsAfterAdd(p) ==
    [adds EXCEPT ![p] = IF ~HasItem(cart, p) THEN 1
                        ELSE IF @ > 0 THEN @ + 1 ELSE 0]

addToCartCall(product) ==
    /\ cart' = addToCartUpdater(cart, product)
    /\ adds' = AddsAfterAdd(product.id)
    /\ noAddSinceSale' = FALSE

\* A click on a product of the grid.
addToCart(product) ==
    /\ Step
    /\ UNCHANGED log
    /\ addToCartCall(product)
    /\ alertShown' = NoAlert
    /\ lastOp' = Op("addToCart", product.id, 0, NoResponse, NoRequest)
    /\ UNCHANGED <<products, customerName, paymentMethod, barcodeInput, showReceipt,
                   currentInvoice, checkouts, lookups, loads, backend>>
    /\ Render

updateQuantity(productId, change) ==
    /\ Step
    /\ UNCHANGED log
    /\ cart' = updateQuantityUpdater(cart, productId, change)
    /\ adds' = [adds EXCEPT ![productId] = 0]
    /\ alertShown' = NoAlert
    /\ lastOp' = Op("updateQuantity", productId, change, NoResponse, NoRequest)
    /\ UNCHANGED <<products, customerName, paymentMethod, barcodeInput, showReceipt,
                   currentInvoice, checkouts, lookups, loads, backend, noAddSinceSale>>
    /\ Render

removeFromCart(productId) ==
    /\ Step
    /\ UNCHANGED log
    /\ cart' = removeFromCartUpdater(cart, productId)
    /\ adds' = [adds EXCEPT ![productId] = 0]
    /\ alertShown' = NoAlert
    /\ lastOp' = Op("removeFromCart", productId, 0, NoResponse, NoRequest)
    /\ UNCHANGED <<products, customerName, paymentMethod, barcodeInput, showReceipt,
                   currentInvoice, checkouts, lookups, loads, backend, noAddSinceSale>>
    /\ Render

\* clearCart without the window.confirm conjunct.
clearCartUnconfirmed(confirmed) ==
    /\ Step
    /\ UNCHANGED log
    /\ IF Len(cart) > 0
       THEN /\ cart' = << >>
            /\ adds' = [p \in ProductIds |-> 0]
       ELSE UNCHANGED <<cart, adds>>
    /\ alertShown' = NoAlert
    /\ lastOp' = Op(IF confirmed THEN "clearCartConfirmed" ELSE "clearCartDeclined",
                    0, 0, NoResponse, NoRequest)
    /\ UNCHANGED <<products, customerName, paymentMethod, barcodeInput, showReceipt,
                   currentInvoice, checkouts, lookups, loads, backend, noAddSinceSale>>
    /\ Render

\* confirmed is the operator's answer to window.confirm, asked only of a non-empty cart.
clearCart(confirmed) ==
    /\ Step
    /\ UNCHANGED log
    /\ IF Len(cart) > 0 /\ confirmed
       THEN /\ cart' = << >>
            /\ adds' = [p \in ProductIds |-> 0]
       ELSE UNCHANGED <<cart, adds>>
    /\ alertShown' = NoAlert
    /\ lastOp' = Op(IF confirmed THEN "clearCartConfirmed" ELSE "clearCartDeclined",
                    0, 0, NoResponse, NoRequest)
    /\ UNCHANGED <<products, customerName, paymentMethod, barcodeInput, showReceipt,
                   currentInvoice, checkouts, lookups, loads, backend, noAddSinceSale>>
    /\ Render

-----------------------------------------------------------------------------
(* Sale metadata and the barcode field *)

setCustomerName(value) ==
    /\ Step
    /\ UNCHANGED log
    /\ value # customerName
    /\ customerName' = value
    /\ alertShown' = NoAlert
    /\ lastOp' = Op("setCustomerName", 0, 0, NoResponse, NoRequest)
    /\ UNCHANGED <<products, cart, paymentMethod, barcodeInput, showReceipt,
                   currentInvoice, checkouts, lookups, loads, backend, adds,
                   noAddSinceSale>>
    /\ Render

setPaymentMethod(value) ==
    /\ Step
    /\ UNCHANGED log
    /\ value # paymentMethod
    /\ paymentMethod' = value
    /\ alertShown' = NoAlert
    /\ lastOp' = Op("setPaymentMethod", 0, 0, NoResponse, NoRequest)
    /\ UNCHANGED <<products, cart, customerName, barcodeInput, showReceipt,
                   currentInvoice, checkouts, lookups, loads, backend, adds,
                   noAddSinceSale>>
    /\ Render

setBarcodeInput(value) ==
    /\ Step
    /\ UNCHANGED log
    /\ value # barcodeInput
    /\ barcodeInput' = value
    /\ alertShown' = NoAlert
    /\ lastOp' = Op("setBarcodeInput", 0, 0, NoResponse, NoRequest)
    /\ UNCHANGED <<products, cart, customerName, paymentMethod, showReceipt,
                   currentInvoice, checkouts, lookups, loads, backend, adds,
                   noAddSinceSale>>
    /\ Render

-----------------------------------------------------------------------------
(* Catalog Client *)

\* The continuation of loadProducts: the response replaces the catalog, a failure
\* is only logged.
loadProductsDone(ok) ==
    /\ Step
    /\ UNCHANGED log
    /\ loads > 0
    /\ loads' = loads - 1
    /\ products' = IF ok THEN backend ELSE products
    /\ alertShown' = NoAlert
    /\ lastOp' = Op("loadProductsDone", 0, 0, NoResponse, NoRequest)
    /\ UNCHANGED <<cart, customerName, paymentMethod, barcodeInput, showReceipt,
                   currentInvoice, checkouts, lookups, backend, adds, noAddSinceSale>>
    /\ Render

\* searchByBarcode up to its await: a blank field sends nothing.
searchByBarcode ==
    /\ Step
    /\ UNCHANGED log
    /\ lookups' = IF barcodeInput = "" THEN lookups ELSE Append(lookups, barcodeInput)
    /\ alertShown' = NoAlert
    /\ lastOp' = Op("searchByBarcode", 0, 0, NoResponse, NoRequest)
    /\ UNCHANGED <<products, cart, customerName, paymentMethod, barcodeInput,
                   showReceipt, currentInvoice, checkouts, loads, backend, adds,
                   noAddSinceSale>>
    /\ Render

\* The backend's answer to GET /products/{identifier}: the product whose id the
\* identifier spells, 404 when there is none.
BackendLookup(identifier) ==
    {backend[i] : i \in {j \in DOMAIN backend :
                            \/ identifier = "1" /\ backend[j].id = 1
                            \/ identifier = "2" /\ backend[j].id = 2}}

LookupFailures(identifier) ==
    {e \in LookupErrors : e.status = 404 => BackendLookup(identifier) = {}}

searchErrorMessage(error) ==
    IF error.kind = "axios"
    THEN IF error.status = 404
         THEN "Product not found!"
         ELSE IF error.detail \notin {Undefined, ""} THEN error.detail
              ELSE IF error.message \notin {Undefined, ""} THEN error.message
              ELSE "Search failed"
    ELSE IF error.kind = "error" THEN error.message
    ELSE "Product not found!"

RemoveAt(seq, i) ==
    [j \in 1..(Len(seq) - 1) |-> IF j < i THEN seq[j] ELSE seq[j + 1]]

\* The continuation of searchByBarcode on a product.
searchByBarcodeFound(i, product) ==
    /\ Step
    /\ UNCHANGED log
    /\ i \in DOMAIN lookups
    /\ product \in BackendLookup(lookups[i])
    /\ lookups' = RemoveAt(lookups, i)
    /\ addToCartCall(product)
    /\ barcodeInput' = ""
    /\ alertShown' = NoAlert
    /\ lastOp' = Op("searchByBarcodeFound", product.id, 0, NoResponse, NoRequest)
    /\ UNCHANGED <<products, customerName, paymentMethod, showReceipt, currentInvoice,
                   checkouts, loads, backend>>
    /\ Render

\* The catch block of searchByBarcode.
searchByBarcodeFailed(i, error) ==
    /\ Step
    /\ UNCHANGED log
    /\ i \in DOMAIN lookups
    /\ error \in LookupFailures(lookups[i])
    /\ lookups' = RemoveAt(lookups, i)
    /\ alertShown' = searchErrorMessage(error)
    /\ lastOp' = Op("searchByBarcodeFailed", 0, 0, Thrown(error), NoRequest)
    /\ UNCHANGED <<products, cart, customerName, paymentMethod, barcodeInput,
                   showReceipt, currentInvoice, checkouts, loads, backend, adds,
                   noAddSinceSale>>
    /\ Render

\* An administrator saves a product: the backend's catalog changes.
handleProductSubmit ==
    /\ Step
    /\ UNCHANGED log
    /\ backend' \in Catalogs \ {backend}
    /\ alertShown' = NoAlert
    /\ lastOp' = Op("handleProductSubmit", 0, 0, NoResponse, NoRequest)
    /\ UNCHANGED <<products, cart, customerName, paymentMethod, barcodeInput,
                   showReceipt, currentInvoice, checkouts, lookups, loads, adds,
                   noAddSinceSale>>
    /\ Render

-----------------------------------------------------------------------------
(* Checkout Orchestrator *)

CheckoutData ==
    [cart |-> cart, customer_name |-> customerName, payment_method |-> paymentMethod]

\* processCheckout without the empty-cart return.
processCheckoutUnguarded ==
    /\ Step
    /\ log' = [log EXCEPT !.attempts = @ + 1]
    /\ alertShown' = NoAlert
    /\ checkouts' = Append(checkouts, CheckoutData)
    /\ lastOp' = Op("processCheckout", 0, 0, NoResponse, NoRequest)
    /\ UNCHANGED <<products, cart, customerName, paymentMethod, barcodeInput,
                   showReceipt, currentInvoice, lookups, loads, backend, adds,
                   noAddSinceSale>>
    /\ Render

\* processCheckout clearing the cart when it sends the request.
processCheckoutClearsEarly ==
    /\ Step
    /\ log' = [log EXCEPT !.attempts = IF Len(cart) = 0 THEN @ ELSE @ + 1]
    /\ IF Len(cart) = 0
       THEN /\ alertShown' = "Cart is empty!"
            /\ UNCHANGED <<checkouts, cart, adds>>
       ELSE /\ alertShown' = NoAlert
            /\ checkouts' = Append(checkouts, CheckoutData)
            /\ cart' = << >>
            /\ adds' = [p \in ProductIds |-> 0]
    /\ lastOp' = Op("processCheckout", 0, 0, NoResponse, NoRequest)
    /\ UNCHANGED <<products, customerName, paymentMethod, barcodeInput,
                   showReceipt, currentInvoice, lookups, loads, backend,
                   noAddSinceSale>>
    /\ Render

\* processCheckout that sends nothing once a checkout has been rejected.
processCheckoutStuck ==
    /\ Step
    /\ log' = [log EXCEPT !.attempts = IF Len(cart) = 0 THEN @ ELSE @ + 1]
    /\ IF Len(cart) = 0
       THEN /\ alertShown' = "Cart is empty!"
            /\ UNCHANGED checkouts
       ELSE /\ alertShown' = NoAlert
            /\ checkouts' = IF log.rejected > 0 THEN checkouts
                            ELSE Append(checkouts, CheckoutData)
    /\ lastOp' = Op("processCheckout", 0, 0, NoResponse, NoRequest)
    /\ UNCHANGED <<products, cart, customerName, paymentMethod, barcodeInput,
                   showReceipt, currentInvoice, lookups, loads, backend, adds,
                   noAddSinceSale>>
    /\ Render

\* processCheckout up to its await.
processCheckout ==
    /\ Step
    /\ log' = [log EXCEPT !.attempts = IF Len(cart) = 0 THEN @ ELSE @ + 1]
    /\ IF Len(cart) = 0
       THEN /\ alertShown' = "Cart is empty!"
            /\ UNCHANGED checkouts
       ELSE /\ alertShown' = NoAlert
            /\ checkouts' = Append(checkouts, CheckoutData)
    /\ lastOp' = Op("processCheckout", 0, 0, NoResponse, NoRequest)
    /\ UNCHANGED <<products, cart, customerName, paymentMethod, barcodeInput,
                   showReceipt, currentInvoice, lookups, loads, backend, adds,
                   noAddSinceSale>>
    /\ Render

checkoutErrorMessage(error) ==
    IF error.kind = "axios"
    THEN IF error.detail \notin {Undefined, ""} THEN error.detail
         ELSE IF error.message \notin {Undefined, ""} THEN error.message
         ELSE "Checkout failed"
    ELSE IF error.kind = "error" THEN error.message
    ELSE "Checkout failed"

\* The continuation with setCart([]) moved after the try statement: the cart is
\* cleared on a rejection too.
processCheckoutSettledClears(i, response) ==
    /\ Step
    /\ log' = [log EXCEPT !.settled = @ + 1,
                           !.rejected = IF response.error = NoError THEN @ ELSE @ + 1]
    /\ i \in DOMAIN checkouts
    /\ checkouts' = RemoveAt(checkouts, i)
    /\ cart' = << >>
    /\ adds' = [p \in ProductIds |-> 0]
    /\ IF response.error = NoError
       THEN /\ currentInvoice' = response.data
            /\ showReceipt' = TRUE
            /\ loads' = loads + 1
            /\ noAddSinceSale' = TRUE
            /\ alertShown' = NoAlert
       ELSE /\ alertShown' = checkoutErrorMessage(response.error)
            /\ UNCHANGED <<currentInvoice, showReceipt, loads, noAddSinceSale>>
    /\ lastOp' = Op("processCheckoutSettled", 0, 0, response, checkouts[i])
    /\ UNCHANGED <<products, customerName, paymentMethod, barcodeInput, lookups,
                   backend>>
    /\ Render

\* The continuation without setCart([]).
processCheckoutSettledKeepsCart(i, response) ==
    /\ Step
    /\ log' = [log EXCEPT !.settled = @ + 1,
                           !.rejected = IF response.error = NoError THEN @ ELSE @ + 1]
    /\ i \in DOMAIN checkouts
    /\ checkouts' = RemoveAt(checkouts, i)
    /\ IF response.error = NoError
       THEN /\ currentInvoice' = response.data
            /\ showReceipt' = TRUE
            /\ loads' = loads + 1
            /\ noAddSinceSale' = TRUE
            /\ alertShown' = NoAlert
       ELSE /\ alertShown' = checkoutErrorMessage(response.error)
            /\ UNCHANGED <<currentInvoice, showReceipt, loads, noAddSinceSale>>
    /\ lastOp' = Op("processCheckoutSettled", 0, 0, response, checkouts[i])
    /\ UNCHANGED <<products, cart, adds, customerName, paymentMethod, barcodeInput,
                   lookups, backend>>
    /\ Render

\* The continuation sending the rejected request again from its catch block.
processCheckoutSettledRetries(i, response) ==
    /\ Step
    /\ log' = [log EXCEPT !.settled = @ + 1,
                           !.rejected = IF response.error = NoError THEN @ ELSE @ + 1]
    /\ i \in DOMAIN checkouts
    /\ IF response.error = NoError
       THEN /\ checkouts' = RemoveAt(checkouts, i)
            /\ currentInvoice' = response.data
            /\ showReceipt' = TRUE
            /\ cart' = << >>
            /\ loads' = loads + 1
            /\ adds' = [p \in ProductIds |-> 0]
            /\ noAddSinceSale' = TRUE
            /\ alertShown' = NoAlert
       ELSE /\ checkouts' = Append(RemoveAt(checkouts, i), checkouts[i])
            /\ alertShown' = checkoutErrorMessage(response.error)
            /\ UNCHANGED <<currentInvoice, showReceipt, cart, loads, adds,
                           noAddSinceSale>>
    /\ lastOp' = Op("processCheckoutSettled", 0, 0, response, checkouts[i])
    /\ UNCHANGED <<products, customerName, paymentMethod, barcodeInput, lookups,
                   backend>>
    /\ Render

\* The continuation with setShowReceipt(true) moved after the try statement: the
\* receipt is opened on a rejection too.
processCheckoutSettledShowsReceipt(i, response) ==
    /\ Step
    /\ log' = [log EXCEPT !.settled = @ + 1,
                           !.rejected = IF response.error = NoError THEN @ ELSE @ + 1]
    /\ i \in DOMAIN checkouts
    /\ checkouts' = RemoveAt(checkouts, i)
    /\ showReceipt' = TRUE
    /\ IF response.error = NoError
       THEN /\ currentInvoice' = response.data
            /\ cart' = << >>
            /\ loads' = loads + 1
            /\ adds' = [p \in ProductIds |-> 0]
            /\ noAddSinceSale' = TRUE
            /\ alertShown' = NoAlert
       ELSE /\ alertShown' = checkoutErrorMessage(response.error)
            /\ UNCHANGED <<currentInvoice, cart, loads, adds, noAddSinceSale>>
    /\ lastOp' = Op("processCheckoutSettled", 0, 0, response, checkouts[i])
    /\ UNCHANGED <<products, customerName, paymentMethod, barcodeInput, lookups,
                   backend>>
    /\ Render

\* The continuation of processCheckout: the rest of the try block on a resolved
\* request, the catch block on a thrown one.
processCheckoutSettled(i, response) ==
    /\ Step
    /\ log' = [log EXCEPT !.settled = @ + 1,
                           !.rejected = IF response.error = NoError THEN @ ELSE @ + 1]
    /\ i \in DOMAIN checkouts
    /\ checkouts' = RemoveAt(checkouts, i)
    /\ IF response.error = NoError
       THEN /\ currentInvoice' = response.data
            /\ showReceipt' = TRUE
            /\ cart' = << >>
            /\ loads' = loads + 1
            /\ adds' = [p \in ProductIds |-> 0]
            /\ noAddSinceSale' = TRUE
            /\ alertShown' = NoAlert
       ELSE /\ alertShown' = checkoutErrorMessage(response.error)
            /\ UNCHANGED <<currentInvoice, showReceipt, cart, loads, adds,
                           noAddSinceSale>>
    /\ lastOp' = Op("processCheckoutSettled", 0, 0, response, checkouts[i])
    /\ UNCHANGED <<products, customerName, paymentMethod, barcodeInput, lookups,
                   backend>>
    /\ Render

\* A close button of the receipt modal.
closeReceipt ==
    /\ Step
    /\ UNCHANGED log
    /\ showReceipt /\ currentInvoice # null
    /\ showReceipt' = FALSE
    /\ alertShown' = NoAlert
    /\ lastOp' = Op("closeReceipt", 0, 0, NoResponse, NoRequest)
    /\ UNCHANGED <<products, cart, customerName, paymentMethod, barcodeInput,
                   currentInvoice, checkouts, lookups, loads, backend, adds,
                   noAddSinceSale>>
    /\ Render

-----------------------------------------------------------------------------

Next ==
    \/ \E i \in DOMAIN products : addToCart(products[i])
    \/ \E p \in ProductIds, d \in Deltas : updateQuantity(p, d)
    \/ \E p \in ProductIds : removeFromCart(p)
    \/ \E c \in BOOLEAN : clearCart(c)
    \/ \E v \in CustomerNames : setCustomerName(v)
    \/ \E v \in PaymentMethods : setPaymentMethod(v)
    \/ \E v \in BarcodeInputs : setBarcodeInput(v)
    \/ \E ok \in BOOLEAN : loadProductsDone(ok)
    \/ searchByBarcode
    \/ \E i \in DOMAIN lookups : \E p \in BackendLookup(lookups[i]) :
            searchByBarcodeFound(i, p)
    \/ \E i \in DOMAIN lookups, e \in LookupErrors : searchByBarcodeFailed(i, e)
    \/ handleProductSubmit
    \/ processCheckout
    \/ \E i \in DOMAIN checkouts, r \in CheckoutResponses : processCheckoutSettled(i, r)
    \/ closeReceipt

Spec == Init /\ [][Next]_vars

\* The program with the scheduling it can count on: every catalog fetch and every
\* lookup is answered and the event loop runs its continuation. Nothing is
\* assumed of the answers to checkouts, and the operator may stop at any time.
FairSpec ==
    /\ Spec
    /\ WF_vars(\E ok \in BOOLEAN : loadProductsDone(ok))
    /\ WF_vars(\E i \in DOMAIN lookups :
                    \/ \E p \in BackendLookup(lookups[i]) : searchByBarcodeFound(i, p)
                    \/ \E e \in LookupErrors : searchByBarcodeFailed(i, e))

-----------------------------------------------------------------------------
(* Properties *)

LinesOf(c, p) == {i \in DOMAIN c : c[i].product_id = p}

Rejected == lastOp.op = "processCheckoutSettled" /\ lastOp.response.error # NoError

Confirmed == lastOp.op = "processCheckoutSettled" /\ lastOp.response.status = 200

\* C1: after any sequence of cart and checkout operations no two lines of the
\* cart share a product id.
C1_UniqueProductIds ==
    \A i, j \in DOMAIN cart : i # j => cart[i].product_id # cart[j].product_id

\* addToCart has just merged into an existing line of a two-line cart.
C1_Witness ==
    /\ lastOp.op = "addToCart"
    /\ HasItem(lastOp.cart, lastOp.pid)
    /\ Len(cart) = 2

\* C2: every line of the cart has quantity >= 1, whatever the deltas given to
\* updateQuantity.
C2_QuantitiesPositive ==
    \A i \in DOMAIN cart : cart[i].quantity >= 1

\* updateQuantity has just taken a line to zero or below while another line stays.
C2_Witness ==
    /\ lastOp.op = "updateQuantity"
    /\ HasItem(lastOp.cart, lastOp.pid)
    /\ FindItem(lastOp.cart, lastOp.pid).quantity + lastOp.change <= 0
    /\ Len(cart) >= 1

\* C3: n >= 1 consecutive addToCart(p) calls, starting with no line for p and with
\* no other operation on p in between, leave exactly one line for p, of quantity n.
C3_AddsGiveQuantity ==
    \A p \in ProductIds :
        adds[p] >= 1 =>
            /\ Cardinality(LinesOf(cart, p)) = 1
            /\ \A i \in LinesOf(cart, p) : cart[i].quantity = adds[p]

\* Three consecutive adds of one product, with a line of another product present.
C3_Witness ==
    /\ \E p \in ProductIds : adds[p] = 3
    /\ Len(cart) = 2

\* C4: updateQuantity(p, delta) on an existing line sets its quantity to
\* current + delta, in place, when that is >= 1, and removes the line when it is
\* <= 0; updateQuantity(p, -1) on the only line, at quantity 1, empties the cart.
C4_ChangeQuantity ==
    (lastOp.op = "updateQuantity" /\ HasItem(lastOp.cart, lastOp.pid)) =>
        LET before == lastOp.cart
            sum == FindItem(before, lastOp.pid).quantity + lastOp.change
        IN  IF sum >= 1
            THEN /\ Len(cart) = Len(before)
                 /\ \A i \in LinesOf(before, lastOp.pid) :
                        /\ cart[i].product_id = lastOp.pid
                        /\ cart[i].quantity = sum
            ELSE /\ LinesOf(cart, lastOp.pid) = {}
                 /\ Len(cart) = Len(before) - 1
                 /\ (Len(before) = 1 => cart = << >>)

\* updateQuantity(p, -1) has just run on a cart whose only line had quantity 1.
C4_Witness ==
    /\ lastOp.op = "updateQuantity"
    /\ lastOp.change = -1
    /\ Len(lastOp.cart) = 1
    /\ lastOp.cart[1].product_id = lastOp.pid
    /\ lastOp.cart[1].quantity = 1
    /\ cart = << >>

\* C5: processCheckout on an empty cart alerts "Cart is empty!", sends no request
\* (no checkout becomes outstanding) and changes neither cart, invoice nor receipt.
C5_EmptyCartCheckout ==
    [][(lastOp'.op = "processCheckout" /\ Len(cart) = 0) =>
            /\ alertShown' = "Cart is empty!"
            /\ UNCHANGED <<checkouts, cart, currentInvoice, showReceipt, loads>>]_vars

\* processCheckout has just run on an empty cart with nothing outstanding.
C5_Witness ==
    /\ lastOp.op = "processCheckout"
    /\ lastOp.cart = << >>
    /\ alertShown = "Cart is empty!"
    /\ checkouts = << >>

\* C6 as stated: after a rejection the cart is identical to the cart at the moment
\* the rejected checkout was submitted.
C6_CartAsSubmitted ==
    Rejected => cart = lastOp.request.cart

\* C6 as amended: the rejection itself leaves the cart untouched; the cart after it
\* is identical, in content and order, to the cart just before it was processed.
C6_RejectionKeepsCart ==
    Rejected => cart = lastOp.cart

\* A rejection has just been processed on a cart edited since the submission.
C6_Witness ==
    /\ Rejected
    /\ cart # << >>
    /\ cart # lastOp.request.cart

\* C7: the cart-clear of a checkout, the catalog re-fetch and the hand-over of the
\* invoice to the receipt happen only in the continuation of a 2xx response to a
\* checkout that was outstanding; sending a checkout and processing a rejection
\* cause none of them.
C7_EffectsOnlyOnConfirm ==
    [][LET op == lastOp'.op
           ok == /\ op = "processCheckoutSettled"
                 /\ lastOp'.response.status = 200
                 /\ \E i \in DOMAIN checkouts : checkouts[i] = lastOp'.request
       IN  /\ (\/ currentInvoice' # currentInvoice
               \/ showReceipt' /\ ~showReceipt
               \/ loads' > loads) => ok
           /\ (op \in {"processCheckout", "processCheckoutSettled"} /\ cart' # cart)
                  => ok /\ cart' = << >>
           /\ (op = "processCheckoutSettled" /\ lastOp'.response.error # NoError)
                  => UNCHANGED <<cart, currentInvoice, showReceipt, loads>>
           /\ op = "processCheckout"
                  => UNCHANGED <<cart, currentInvoice, showReceipt, loads>>]_vars

\* A confirmation has just cleared a non-empty cart, set the invoice, opened the
\* receipt and started a catalog fetch.
C7_Witness ==
    /\ Confirmed
    /\ lastOp.cart # << >>
    /\ cart = << >>
    /\ showReceipt
    /\ currentInvoice # null
    /\ loads >= 1

\* C8: the cart is empty right after a confirmation is processed, and a
\* processCheckout before any new addToCart call alerts "Cart is empty!" and sends
\* no request.
C8_EmptyAfterConfirm ==
    [][/\ (lastOp'.op = "processCheckoutSettled" /\ lastOp'.response.status = 200)
              => cart' = << >>
       /\ (noAddSinceSale /\ lastOp'.op = "processCheckout")
              => alertShown' = "Cart is empty!" /\ checkouts' = checkouts]_vars

\* processCheckout has just run after a confirmed sale with no addToCart since.
C8_Witness ==
    /\ lastOp.op = "processCheckout"
    /\ noAddSinceSale
    /\ currentInvoice # null
    /\ alertShown = "Cart is empty!"

\* C9: at most one checkout request is outstanding at a time.
C9_SingleSubmission ==
    Len(checkouts) <= 1

Present(text) == text \notin {Undefined, ""}

\* C10: the alert of a rejected checkout is the backend's detail when present,
\* else the transport message when present, else "Checkout failed"; it is never
\* empty.
C10_ErrorMessageFallback ==
    Rejected =>
        LET error == lastOp.response.error
        IN  /\ alertShown = IF Present(error.detail) THEN error.detail
                            ELSE IF Present(error.message) THEN error.message
                            ELSE "Checkout failed"
            /\ alertShown # ""

\* C11: a lookup answered 404 alerts "Product not found!" and leaves the cart
\* unchanged, and a lookup that failed in any other way never alerts
\* "Product not found!".
C11_NotFoundDistinguishable ==
    lastOp.op = "searchByBarcodeFailed" =>
        /\ cart = lastOp.cart
        /\ lastOp.response.status = 404 => alertShown = "Product not found!"
        /\ lastOp.response.status # 404 => alertShown # "Product not found!"

\* C12: clearCart empties a non-empty cart when the operator confirms and leaves
\* it as it was when the operator declines; on an empty cart it changes nothing;
\* the continuation of a confirmed checkout empties the cart with no question asked.
C12_ClearNeedsConfirm ==
    /\ lastOp.op = "clearCartConfirmed" => cart = << >>
    /\ lastOp.op = "clearCartDeclined" => cart = lastOp.cart
    /\ Confirmed => cart = << >>

\* The operator has just declined to clear a cart of two lines.
C12_Witness ==
    /\ lastOp.op = "clearCartDeclined"
    /\ Len(lastOp.cart) = 2
    /\ cart = lastOp.cart

\* What the lines of product p contribute to the subtotal of cart c.
AmountOf(c, p) ==
    IF LinesOf(c, p) = {} THEN 0
    ELSE LET i == CHOOSE j \in LinesOf(c, p) : TRUE IN c[i].price * c[i].quantity

\* C13: the totals shown for the cart have subtotal = the sum over the lines of
\* price x quantity, tax = 8% of the subtotal and total = subtotal + tax; the cart
\* of two units at 10.00 and one unit at 5.00 gives 25.00, 2.00 and 27.00, and the
\* empty cart gives 0, 0, 0.
C13_Totals ==
    /\ totals.subtotal = AmountOf(cart, 1) + AmountOf(cart, 2) + AmountOf(cart, 3)
    /\ totals.tax * 100 = totals.subtotal * 8
    /\ totals.total = totals.subtotal + totals.tax
    /\ (/\ Len(cart) = 2
        /\ cart[1].price = 1000 /\ cart[1].quantity = 2
        /\ cart[2].price = 500 /\ cart[2].quantity = 1)
           => totals = [subtotal |-> 2500, tax |-> 200, total |-> 2700]
    /\ cart = << >> => totals = [subtotal |-> 0, tax |-> 0, total |-> 0]

\* The cart built by adding the product priced 10.00 twice and the product priced
\* 5.00 once.
C13_Witness ==
    /\ adds[1] = 2
    /\ adds[2] = 1
    /\ Len(cart) = 2
    /\ cart[1].price = 1000 /\ cart[1].quantity = 2
    /\ cart[2].price = 500 /\ cart[2].quantity = 1
    /\ totals.total = 2700

\* C14: the totals on screen are those of the current cart lines alone: whatever
\* sequence of operations led to a cart, the subtotal, tax and total shown are the
\* ones calculateTotals gives for that cart, with nothing carried over from
\* earlier carts.
C14_TotalsOfCurrentCart ==
    totals = calculateTotals(cart)

\* One line of quantity 2 reached by an add and a +1, not by two adds, after
\* another line was added and removed.
C14_Witness ==
    /\ lastOp.op = "removeFromCart"
    /\ Len(lastOp.cart) = 2
    /\ Len(cart) = 1
    /\ cart[1].quantity = 2
    /\ adds[cart[1].product_id] = 0
    /\ totals.subtotal = 2 * cart[1].price

\* C15: a line keeps the name and the unit price it was created with: whatever
\* the operation (a catalog fetch, an add of the same product at another price, a
\* quantity change, ...), a product that had a line before it and has one after it
\* shows the same name and price in both.
C15_LineSnapshot ==
    \A p \in ProductIds :
        \A i \in LinesOf(lastOp.cart, p), j \in LinesOf(cart, p) :
            /\ cart[j].name = lastOp.cart[i].name
            /\ cart[j].price = lastOp.cart[i].price

\* A lookup has just added product 1, renamed and repriced in the backend since
\* its line was created, to that line.
C15_Witness ==
    /\ lastOp.op = "searchByBarcodeFound"
    /\ lastOp.pid = 1
    /\ backend = CatalogB
    /\ HasItem(lastOp.cart, 1)
    /\ FindItem(cart, 1).quantity = 2
    /\ FindItem(cart, 1).price = 1000
    /\ FindItem(cart, 1).name = "Widget"

\* C16: updateQuantity and removeFromCart for a product id with no line leave the
\* cart as it was and alert nothing; removeFromCart for an id with a line removes
\* that line only, every other line staying in the cart with the same content.
C16_AbsentIdNoOp ==
    LET before == lastOp.cart
        present == HasItem(before, lastOp.pid)
    IN  /\ (lastOp.op \in {"updateQuantity", "removeFromCart"} /\ ~present) =>
                /\ cart = before
                /\ alertShown = NoAlert
        /\ (lastOp.op = "removeFromCart" /\ present) =>
                /\ LinesOf(cart, lastOp.pid) = {}
                /\ Len(cart) = Len(before) - 1
                /\ \A i \in DOMAIN before :
                        before[i].product_id # lastOp.pid =>
                            \E j \in DOMAIN cart : cart[j] = before[i]

\* removeFromCart has just run for a product with no line, on a cart of two lines.
C16_Witness ==
    /\ lastOp.op = "removeFromCart"
    /\ ~HasItem(lastOp.cart, lastOp.pid)
    /\ Len(lastOp.cart) = 2
    /\ cart = lastOp.cart

IdsOf(c) == [i \in DOMAIN c |-> c[i].product_id]

PositionOf(c, p) == CHOOSE i \in LinesOf(c, p) : TRUE

\* C17: the order of the lines is stable. An add of a product with no line puts
\* its line last, behind the lines already there; an add of a product with a line
\* and a quantity change that keeps the line leave every line at its position; a
\* removal leaves the remaining lines in the order they had.
C17_LineOrderStable ==
    LET before == lastOp.cart
        p == lastOp.pid
        present == HasItem(before, p)
        adding == lastOp.op \in {"addToCart", "searchByBarcodeFound"}
        changing == lastOp.op = "updateQuantity" /\ present
        kept == changing /\ FindItem(before, p).quantity + lastOp.change >= 1
        removing == \/ lastOp.op = "removeFromCart" /\ present
                    \/ changing /\ ~kept
    IN  /\ (adding /\ ~present) =>
                /\ Len(cart) = Len(before) + 1
                /\ cart[Len(cart)].product_id = p
                /\ \A i \in DOMAIN before : cart[i] = before[i]
        /\ ((adding /\ present) \/ kept) => IdsOf(cart) = IdsOf(before)
        /\ removing =>
                \A i, j \in DOMAIN cart :
                    i < j => PositionOf(before, cart[i].product_id)
                                < PositionOf(before, cart[j].product_id)

\* The first of three lines has just been removed.
C17_Witness ==
    /\ lastOp.op = "removeFromCart"
    /\ Len(lastOp.cart) = 3
    /\ lastOp.cart[1].product_id = lastOp.pid
    /\ cart = << lastOp.cart[2], lastOp.cart[3] >>

\* C18: once a checkout has been rejected, a processCheckout on a non-empty cart
\* is accepted: it alerts nothing and its request, the newest outstanding one,
\* carries the cart, the customer name and the payment method of that moment.
C18_RetryAfterRejection ==
    (lastOp.op = "processCheckout" /\ log.rejected >= 1 /\ lastOp.cart # << >>) =>
        /\ alertShown = NoAlert
        /\ Len(checkouts) >= 1
        /\ checkouts[Len(checkouts)] =
                [cart |-> cart, customer_name |-> customerName,
                 payment_method |-> paymentMethod]

\* The second checkout of a sale, sent after the first was rejected and the
\* customer name was changed.
C18_Witness ==
    /\ lastOp.op = "processCheckout"
    /\ log = [attempts |-> 2, settled |-> 1, rejected |-> 1]
    /\ Len(checkouts) = 1
    /\ checkouts[1].customer_name = "Alice"
    /\ checkouts[1].cart = cart
    /\ cart # << >>

\* C19: every request ever sent to the checkout endpoint belongs to one
\* processCheckout call on a non-empty cart, one request per call: the requests
\* outstanding and the requests answered add up to the number of such calls, so
\* no rejection or transport failure has sent a request of its own.
C19_OneRequestPerAttempt ==
    Len(checkouts) + log.settled = log.attempts

\* The only checkout attempted has been rejected and nothing is outstanding.
C19_Witness ==
    /\ Rejected
    /\ log = [attempts |-> 1, settled |-> 1, rejected |-> 1]
    /\ checkouts = << >>
    /\ cart # << >>

\* C20: a checkout does not stay outstanding for ever, answered or not: from any
\* state with a request outstanding, a state with none is reached (or the step
\* budget of the model runs out first).
C20_CheckoutLeavesSubmitting ==
    (Len(checkouts) > 0) ~> (Len(checkouts) = 0 \/ steps = MaxSteps)

\* C21: the cart that the continuation of a confirmed checkout clears holds
\* exactly the lines that were sent in that checkout's request.
C21_ClearedAsSubmitted ==
    Confirmed => lastOp.cart = lastOp.request.cart

\* C22: the receipt is shown only while an invoice is held; the invoice held is
\* the one returned by the confirmation processed last (a confirmation stores its
\* invoice and opens the receipt, no other step changes the invoice); a rejected
\* checkout and a checkout of an empty cart change neither showReceipt nor
\* currentInvoice.
C22_ReceiptAndInvoice ==
    /\ [](showReceipt => currentInvoice # null)
    /\ [][LET op == lastOp'.op
              confirmed == op = "processCheckoutSettled" /\ lastOp'.response.status = 200
              rejected == op = "processCheckoutSettled" /\ lastOp'.response.error # NoError
              empty == op = "processCheckout" /\ Len(cart) = 0
          IN  /\ confirmed => currentInvoice' = lastOp'.response.data /\ showReceipt'
              /\ ~confirmed => currentInvoice' = currentInvoice
              /\ (rejected \/ empty) => UNCHANGED <<showReceipt, currentInvoice>>]_vars

\* A rejection has just been processed while the receipt of an earlier
\* confirmation is open.
C22_Witness ==
    /\ Rejected
    /\ showReceipt
    /\ currentInvoice # null
    /\ log = [attempts |-> 2, settled |-> 2, rejected |-> 1]

====
